---- MODULE Spec2Model ----
(***************************************************************************)
(* AlphaDuel: the game session state machine of the alpha-duel contract    *)
(* (contracts/alpha-duel/src/lib.rs).  One action per public entry point.  *)
(* The host runs one invocation at a time and rolls a failed invocation    *)
(* back, so an action either commits all of its writes or none.            *)
(*                                                                         *)
(* The Game Hub (escrow) is an external contract: whether one of its calls *)
(* succeeds is an input of the action (hubOk); the calls it accepted are   *)
(* kept in hubStarted / hubEnded.  Authorisation (require_auth) is an      *)
(* input as well.  `last` is the outcome of the latest invocation: entry   *)
(* point, session id, result code and returned value.                      *)
(*                                                                         *)
(* The instance storage holds the configuration: admin and game_hub, set   *)
(* by the constructor and changed by set_admin / set_hub.                  *)
(*                                                                         *)
(* Not modelled: lease expiry of the temporary storage, upgrade (it        *)
(* replaces the code itself), and i128 overflow (the stakes used here stay *)
(* far from the i128 range, so `+=` is plain integer addition).            *)
(***************************************************************************)
EXTENDS Integers, Sequences, FiniteSets, TLC

VARIABLES games, hubStarted, hubEnded, last, admin, game_hub

vars == <<games, hubStarted, hubEnded, last, admin, game_hub>>

(* ------------------------------ bounds -------------------------------- *)

\* player1 stakes MaxStake, player2 stakes any of 1..MaxStake
MaxStake == 2

\* at most MaxReports accepted end_game reports are kept per session id
MaxReports == 2

(* ------------------------------ inputs -------------------------------- *)

\* 7 and 57 both select word 7 (CHERRY): 57 % 50 = 7
SessionIds == {7, 57}

\* the session id the single-session exploration invokes
OneSession == {57}

Addrs == {"A", "B", "C"}

\* who calls end_game: a participant or a relayer
Callers == {"A", "C"}

Player1Addrs == {"A"}

Player2Addrs == {"A", "B"}

Stakes1 == {MaxStake}

Stakes2 == 1..MaxStake

\* letter codes E,E,E (three matches in CHERRY) and C,A,B (one match)
Guesses == { <<4, 4, 4>>, <<2, 0, 1>> }

Commitments == {"h1", "h2"}

\* addresses the admin role can be handed to, and hub contracts
AdminAddrs == {"G", "H"}

HubAddrs == {"hub1", "hub2"}

Proofs == { <<>>, <<222>> }

PublicInputs == { <<>>, <<0>>, <<1>>, <<2>>, <<3>>, <<2, 1>> }

(* ------------------------------ Option -------------------------------- *)

None == <<>>

Some(x) == <<x>>

IsSome(o) == o # <<>>

IsNone(o) == o = <<>>

Unwrap(o) == o[1]

(* ------------------------- dictionary / encoder ----------------------- *)

\* the match of get_hidden_letters, each word as its ASCII bytes
Word(id) ==
  CASE id = 0  -> <<65,80,80,76,69>>   \* APPLE
    [] id = 1  -> <<66,65,78,65,78,65>>   \* BANANA
    [] id = 2  -> <<79,82,65,78,71,69>>   \* ORANGE
    [] id = 3  -> <<71,82,65,80,69>>   \* GRAPE
    [] id = 4  -> <<77,65,78,71,79>>   \* MANGO
    [] id = 5  -> <<80,69,65,67,72>>   \* PEACH
    [] id = 6  -> <<76,69,77,79,78>>   \* LEMON
    [] id = 7  -> <<67,72,69,82,82,89>>   \* CHERRY
    [] id = 8  -> <<80,69,65,82>>   \* PEAR
    [] id = 9  -> <<80,76,85,77>>   \* PLUM
    [] id = 10 -> <<75,73,87,73>>   \* KIWI
    [] id = 11 -> <<70,73,71>>   \* FIG
    [] id = 12 -> <<68,65,84,69>>   \* DATE
    [] id = 13 -> <<76,73,77,69>>   \* LIME
    [] id = 14 -> <<65,80,82,73,67,79,84>>   \* APRICOT
    [] id = 15 -> <<80,65,80,65,89,65>>   \* PAPAYA
    [] id = 16 -> <<71,85,65,86,65>>   \* GUAVA
    [] id = 17 -> <<80,73,78,69,65,80,80,76,69>>   \* PINEAPPLE
    [] id = 18 -> <<67,79,67,79,78,85,84>>   \* COCONUT
    [] id = 19 -> <<66,76,85,69,66,69,82,82,89>>   \* BLUEBERRY
    [] id = 20 -> <<83,84,82,65,87,66,69,82,82,89>>   \* STRAWBERRY
    [] id = 21 -> <<82,65,83,80,66,69,82,82,89>>   \* RASPBERRY
    [] id = 22 -> <<66,76,65,67,75,66,69,82,82,89>>   \* BLACKBERRY
    [] id = 23 -> <<87,65,84,69,82,77,69,76,79,78>>   \* WATERMELON
    [] id = 24 -> <<67,65,78,84,65,76,79,85,80,69>>   \* CANTALOUPE
    [] id = 25 -> <<72,79,78,69,89,68,69,87>>   \* HONEYDEW
    [] id = 26 -> <<78,69,67,84,65,82,73,78,69>>   \* NECTARINE
    [] id = 27 -> <<84,65,78,71,69,82,73,78,69>>   \* TANGERINE
    [] id = 28 -> <<80,79,77,69,71,82,65,78,65,84,69>>   \* POMEGRANATE
    [] id = 29 -> <<80,65,83,83,73,79,78,70,82,85,73,84>>   \* PASSIONFRUIT
    [] id = 30 -> <<68,82,65,71,79,78,70,82,85,73,84>>   \* DRAGONFRUIT
    [] id = 31 -> <<76,89,67,72,69,69>>   \* LYCHEE
    [] id = 32 -> <<74,65,67,75,70,82,85,73,84>>   \* JACKFRUIT
    [] id = 33 -> <<67,82,65,78,66,69,82,82,89>>   \* CRANBERRY
    [] id = 34 -> <<77,85,76,66,69,82,82,89>>   \* MULBERRY
    [] id = 35 -> <<70,73,71,83>>   \* FIGS
    [] id = 36 -> <<68,65,84,69,70,82,85,73,84>>   \* DATEFRUIT
    [] id = 37 -> <<79,76,73,86,69>>   \* OLIVE
    [] id = 38 -> <<81,85,73,78,67,69>>   \* QUINCE
    [] id = 39 -> <<75,85,77,81,85,65,84>>   \* KUMQUAT
    [] id = 40 -> <<65,86,79,67,65,68,79>>   \* AVOCADO
    [] id = 41 -> <<77,65,78,68,65,82,73,78>>   \* MANDARIN
    [] id = 42 -> <<80,69,80,80,69,82,77,73,78,84>>   \* PEPPERMINT
    [] id = 43 -> <<67,76,69,77,69,78,84,73,78,69>>   \* CLEMENTINE
    [] id = 44 -> <<71,82,65,80,69,70,82,85,73,84>>   \* GRAPEFRUIT
    [] id = 45 -> <<83,84,65,82,70,82,85,73,84>>   \* STARFRUIT
    [] id = 46 -> <<66,73,76,66,69,82,82,89>>   \* BILBERRY
    [] id = 47 -> <<71,79,79,83,69,66,69,82,82,89>>   \* GOOSEBERRY
    [] id = 48 -> <<69,76,68,69,82,66,69,82,82,89>>   \* ELDERBERRY
       [] OTHER   -> <<83,65,84,83,85,77,65>>   \* SATSUMA

\* letter = byte - 'A'
encode_word(word) == [i \in 1..Len(word) |-> word[i] - 65]

get_hidden_letters(id) == encode_word(Word(id))

\* Vec::contains
Contains(v, x) == \E i \in 1..Len(v) : v[i] = x

RECURSIVE count_matches(_, _)
count_matches(hidden, guess) ==
  IF guess = <<>> THEN 0
  ELSE (IF Contains(hidden, Head(guess)) THEN 1 ELSE 0)
       + count_matches(hidden, Tail(guess))

(* ------------------------------ outcomes ------------------------------ *)

\* outcome of one invocation: result code, returned value, store and hub after
Outcome(res, val, g, hs, he) ==
  [ res |-> res, val |-> val, games |-> g, hubStarted |-> hs, hubEnded |-> he ]

\* a failed invocation (Err, panic, failed auth, failed hub call): rolled back
Fail(res) == Outcome(res, None, games, hubStarted, hubEnded)

\* mutant: one key for every session, the write lands on all ids
Stored_OneKey(session_id, game) == [s \in SessionIds |-> Some(game)]

\* env.storage().temporary().set(&key, &game)
Stored(session_id, game) == [games EXCEPT ![session_id] = Some(game)]

Commit(op, session_id, out) ==
  /\ games' = out.games
  /\ hubStarted' = out.hubStarted
  /\ hubEnded' = out.hubEnded
  /\ last' = [op |-> op, sid |-> session_id, res |-> out.res, val |-> out.val]
  /\ UNCHANGED <<admin, game_hub>>

(* ------------------------------- Init --------------------------------- *)

Init ==
  /\ games = [s \in SessionIds |-> None]
  /\ hubStarted = [s \in SessionIds |-> None]
  /\ hubEnded = [s \in SessionIds |-> <<>>]
  /\ last = [op |-> "__constructor", sid |-> 0, res |-> "Ok", val |-> None]
  /\ admin = "G"
  /\ game_hub = "hub1"

(* ----------------------------- start_game ----------------------------- *)

\* mutant: the self-play check left out
SelfPlay_Unchecked(player1, player2) == FALSE

SelfPlay(player1, player2) == player1 = player2

\* mutant: the session id used as the word index, without the reduction
HiddenWordId_NoMod(session_id) == session_id

HiddenWordId(session_id) == session_id % 50

NewGame(session_id, player1, player2, player1_points, player2_points) ==
  [ player1 |-> player1,
    player1_guess |-> None,
    player1_points |-> player1_points,
    player2 |-> player2,
    player2_guess |-> None,
    player2_points |-> player2_points,
    winner |-> None,
    hidden_word_id |-> HiddenWordId(session_id),
    player1_guess_commitment |-> None,
    player2_guess_commitment |-> None ]

\* what the hub keeps of an accepted start_game call
HubLock(player1, player2, player1_points, player2_points) ==
  [ player1 |-> player1, player2 |-> player2,
    player1_points |-> player1_points, player2_points |-> player2_points ]

\* mutant: the record is written before the hub call and stays when it fails
start_game_outcome_write_first(session_id, player1, player2, player1_points, player2_points, auth1, auth2, hubOk) ==
  IF SelfPlay(player1, player2) THEN Fail("Panic: Cannot play against yourself")
  ELSE IF ~auth1 \/ ~auth2 THEN Fail("AuthFailed")
  ELSE Outcome(IF hubOk THEN "Ok" ELSE "HubFailed", None,
               Stored(session_id, NewGame(session_id, player1, player2,
                                          player1_points, player2_points)),
               IF hubOk
               THEN [hubStarted EXCEPT ![session_id] =
                       Some(HubLock(player1, player2, player1_points,
                                    player2_points))]
               ELSE hubStarted,
               hubEnded)

\* mutant: an id that already has a record is refused
start_game_outcome_keeps_existing(session_id, player1, player2, player1_points, player2_points, auth1, auth2, hubOk) ==
  IF SelfPlay(player1, player2) THEN Fail("Panic: Cannot play against yourself")
  ELSE IF ~auth1 \/ ~auth2 THEN Fail("AuthFailed")
  ELSE IF IsSome(games[session_id]) THEN Fail("Panic: Game already exists")
  ELSE IF ~hubOk THEN Fail("HubFailed")
  ELSE Outcome("Ok", None,
               Stored(session_id, NewGame(session_id, player1, player2,
                                          player1_points, player2_points)),
               [hubStarted EXCEPT ![session_id] =
                  Some(HubLock(player1, player2, player1_points, player2_points))],
               hubEnded)

start_game_outcome(session_id, player1, player2, player1_points, player2_points, auth1, auth2, hubOk) ==
  IF SelfPlay(player1, player2) THEN Fail("Panic: Cannot play against yourself")
  ELSE IF ~auth1 \/ ~auth2 THEN Fail("AuthFailed")
  ELSE IF ~hubOk THEN Fail("HubFailed")
  ELSE Outcome("Ok", None,
               Stored(session_id, NewGame(session_id, player1, player2,
                                          player1_points, player2_points)),
               [hubStarted EXCEPT ![session_id] =
                  Some(HubLock(player1, player2, player1_points, player2_points))],
               hubEnded)

start_game(session_id, player1, player2, player1_points, player2_points, auth1, auth2, hubOk) ==
  /\ session_id \in SessionIds
  /\ Commit("start_game", session_id,
            start_game_outcome(session_id, player1, player2, player1_points,
                               player2_points, auth1, auth2, hubOk))

(* ------------------------------ get_game ------------------------------ *)

get_game_outcome(session_id) ==
  IF IsNone(games[session_id]) THEN Fail("GameNotFound")
  ELSE Outcome("Ok", games[session_id], games, hubStarted, hubEnded)

get_game(session_id) ==
  /\ session_id \in SessionIds
  /\ Commit("get_game", session_id, get_game_outcome(session_id))

(* ----------------------------- make_guess ----------------------------- *)

\* mutant: player1's slot is not checked, a later guess replaces the first
record_guess_overwrite(game, player, guess) ==
  IF player = game.player1 THEN
    [res |-> "Ok", game |-> [game EXCEPT !.player1_guess = Some(guess)]]
  ELSE IF player = game.player2 THEN
    IF IsSome(game.player2_guess)
    THEN [res |-> "AlreadyGuessed", game |-> game]
    ELSE [res |-> "Ok", game |-> [game EXCEPT !.player2_guess = Some(guess)]]
  ELSE [res |-> "NotPlayer", game |-> game]

\* the participant / slot checks and the assignment: result code and game after
record_guess(game, player, guess) ==
  IF player = game.player1 THEN
    IF IsSome(game.player1_guess)
    THEN [res |-> "AlreadyGuessed", game |-> game]
    ELSE [res |-> "Ok", game |-> [game EXCEPT !.player1_guess = Some(guess)]]
  ELSE IF player = game.player2 THEN
    IF IsSome(game.player2_guess)
    THEN [res |-> "AlreadyGuessed", game |-> game]
    ELSE [res |-> "Ok", game |-> [game EXCEPT !.player2_guess = Some(guess)]]
  ELSE [res |-> "NotPlayer", game |-> game]

\* mutant: the record is stored before the participant / slot checks
make_guess_outcome_write_before_checks(session_id, player, guess, auth) ==
  IF ~auth THEN Fail("AuthFailed")
  ELSE IF IsNone(games[session_id]) THEN Fail("GameNotFound")
  ELSE LET game == Unwrap(games[session_id]) IN
    IF IsSome(game.winner) THEN Fail("GameAlreadyEnded")
    ELSE LET r == record_guess(game, player, guess) IN
      Outcome(r.res, None,
              Stored(session_id, [game EXCEPT !.player1_guess = Some(guess)]),
              hubStarted, hubEnded)

make_guess_outcome(session_id, player, guess, auth) ==
  IF ~auth THEN Fail("AuthFailed")
  ELSE IF IsNone(games[session_id]) THEN Fail("GameNotFound")
  ELSE LET game == Unwrap(games[session_id]) IN
    IF IsSome(game.winner) THEN Fail("GameAlreadyEnded")
    ELSE LET r == record_guess(game, player, guess) IN
      IF r.res # "Ok" THEN Fail(r.res)
      ELSE Outcome("Ok", None, Stored(session_id, r.game), hubStarted, hubEnded)

make_guess(session_id, player, guess, auth) ==
  /\ session_id \in SessionIds
  /\ Commit("make_guess", session_id,
            make_guess_outcome(session_id, player, guess, auth))

(* ---------------------------- commit_guess ---------------------------- *)

\* mutant: player2's slot is not checked, a later commitment replaces the first
record_commitment_overwrite(game, player, guess_commitment) ==
  IF player = game.player1 THEN
    IF IsSome(game.player1_guess_commitment)
    THEN [res |-> "AlreadyCommitted", game |-> game]
    ELSE [res |-> "Ok",
          game |-> [game EXCEPT !.player1_guess_commitment = Some(guess_commitment)]]
  ELSE IF player = game.player2 THEN
    [res |-> "Ok",
     game |-> [game EXCEPT !.player2_guess_commitment = Some(guess_commitment)]]
  ELSE [res |-> "NotPlayer", game |-> game]

\* mutant: a participant may commit only after guessing
record_commitment_needs_guess(game, player, guess_commitment) ==
  IF player = game.player1 THEN
    IF IsSome(game.player1_guess_commitment)
    THEN [res |-> "AlreadyCommitted", game |-> game]
    ELSE IF IsNone(game.player1_guess)
    THEN [res |-> "BothPlayersNotGuessed", game |-> game]
    ELSE [res |-> "Ok",
          game |-> [game EXCEPT !.player1_guess_commitment = Some(guess_commitment)]]
  ELSE IF player = game.player2 THEN
    IF IsSome(game.player2_guess_commitment)
    THEN [res |-> "AlreadyCommitted", game |-> game]
    ELSE IF IsNone(game.player2_guess)
    THEN [res |-> "BothPlayersNotGuessed", game |-> game]
    ELSE [res |-> "Ok",
          game |-> [game EXCEPT !.player2_guess_commitment = Some(guess_commitment)]]
  ELSE [res |-> "NotPlayer", game |-> game]

record_commitment(game, player, guess_commitment) ==
  IF player = game.player1 THEN
    IF IsSome(game.player1_guess_commitment)
    THEN [res |-> "AlreadyCommitted", game |-> game]
    ELSE [res |-> "Ok",
          game |-> [game EXCEPT !.player1_guess_commitment = Some(guess_commitment)]]
  ELSE IF player = game.player2 THEN
    IF IsSome(game.player2_guess_commitment)
    THEN [res |-> "AlreadyCommitted", game |-> game]
    ELSE [res |-> "Ok",
          game |-> [game EXCEPT !.player2_guess_commitment = Some(guess_commitment)]]
  ELSE [res |-> "NotPlayer", game |-> game]

\* mutant: the winner check comes after the participant / slot checks
commit_guess_outcome_winner_checked_late(session_id, player, guess_commitment, auth) ==
  IF ~auth THEN Fail("AuthFailed")
  ELSE IF IsNone(games[session_id]) THEN Fail("GameNotFound")
  ELSE LET game == Unwrap(games[session_id]) IN
    LET r == record_commitment(game, player, guess_commitment) IN
      IF r.res # "Ok" THEN Fail(r.res)
      ELSE IF IsSome(game.winner) THEN Fail("GameAlreadyEnded")
      ELSE Outcome("Ok", None, Stored(session_id, r.game), hubStarted, hubEnded)

commit_guess_outcome(session_id, player, guess_commitment, auth) ==
  IF ~auth THEN Fail("AuthFailed")
  ELSE IF IsNone(games[session_id]) THEN Fail("GameNotFound")
  ELSE LET game == Unwrap(games[session_id]) IN
    IF IsSome(game.winner) THEN Fail("GameAlreadyEnded")
    ELSE LET r == record_commitment(game, player, guess_commitment) IN
      IF r.res # "Ok" THEN Fail(r.res)
      ELSE Outcome("Ok", None, Stored(session_id, r.game), hubStarted, hubEnded)

commit_guess(session_id, player, guess_commitment, auth) ==
  /\ session_id \in SessionIds
  /\ Commit("commit_guess", session_id,
            commit_guess_outcome(session_id, player, guess_commitment, auth))

(* ---------------------------- reveal_winner --------------------------- *)

\* mutant: strict comparison, a tie goes to player2
PlainWinner_TieToPlayer2(game) ==
  LET hidden == get_hidden_letters(game.hidden_word_id)
      p1_correct == count_matches(hidden, Unwrap(game.player1_guess))
      p2_correct == count_matches(hidden, Unwrap(game.player2_guess))
  IN IF p1_correct > p2_correct THEN game.player1 ELSE game.player2

\* the comparison of the two match counts
PlainWinner(game) ==
  LET hidden == get_hidden_letters(game.hidden_word_id)
      p1_correct == count_matches(hidden, Unwrap(game.player1_guess))
      p2_correct == count_matches(hidden, Unwrap(game.player2_guess))
  IN IF p1_correct >= p2_correct THEN game.player1 ELSE game.player2

\* mutant: the plain resolution also moves the loser's stake to the winner
reveal_winner_outcome_moves_stakes(session_id) ==
  IF IsNone(games[session_id]) THEN Fail("GameNotFound")
  ELSE LET game == Unwrap(games[session_id]) IN
    IF IsNone(game.player1_guess) \/ IsNone(game.player2_guess)
    THEN Fail("BothPlayersNotGuessed")
    ELSE LET winner == PlainWinner(game) IN
      Outcome("Ok", Some(winner),
              Stored(session_id,
                     [game EXCEPT !.winner = Some(winner),
                                  !.player1_points =
                                    IF winner = game.player1
                                    THEN game.player1_points + game.player2_points
                                    ELSE 0,
                                  !.player2_points =
                                    IF winner = game.player1
                                    THEN 0
                                    ELSE game.player1_points + game.player2_points]),
              hubStarted, hubEnded)

reveal_winner_outcome(session_id) ==
  IF IsNone(games[session_id]) THEN Fail("GameNotFound")
  ELSE LET game == Unwrap(games[session_id]) IN
    IF IsNone(game.player1_guess) \/ IsNone(game.player2_guess)
    THEN Fail("BothPlayersNotGuessed")
    ELSE LET winner == PlainWinner(game) IN
      Outcome("Ok", Some(winner),
              Stored(session_id, [game EXCEPT !.winner = Some(winner)]),
              hubStarted, hubEnded)

reveal_winner(session_id) ==
  /\ session_id \in SessionIds
  /\ Commit("reveal_winner", session_id, reveal_winner_outcome(session_id))

(* ----------------------- reveal_winner_with_proof --------------------- *)

\* mutant: `=` for `+=`, the winner's own stake is lost
AddPoints_Overwrite(a, b) == b

\* i128 `+=` on stakes
AddPoints(a, b) == a + b

\* mutant: the loser's points are not cleared
SettlePoints_LoserKeeps(game, winner) ==
  IF winner = game.player1
  THEN [game EXCEPT !.player1_points = AddPoints(game.player1_points,
                                                 game.player2_points),
                    !.winner = Some(winner)]
  ELSE [game EXCEPT !.player2_points = AddPoints(game.player2_points,
                                                 game.player1_points),
                    !.winner = Some(winner)]

\* step 3: the winner takes the other participant's points
SettlePoints(game, winner) ==
  IF winner = game.player1
  THEN [game EXCEPT !.player1_points = AddPoints(game.player1_points,
                                                 game.player2_points),
                    !.player2_points = 0,
                    !.winner = Some(winner)]
  ELSE [game EXCEPT !.player2_points = AddPoints(game.player2_points,
                                                 game.player1_points),
                    !.player1_points = 0,
                    !.winner = Some(winner)]

reveal_winner_with_proof_outcome(session_id, proof, public_inputs) ==
  IF IsNone(games[session_id]) THEN Fail("GameNotFound")
  ELSE LET game == Unwrap(games[session_id]) IN
    IF IsNone(game.player1_guess_commitment)
         \/ IsNone(game.player2_guess_commitment)
    THEN Fail("BothPlayersNotGuessed")
    ELSE IF IsSome(game.winner) THEN Fail("Panic: Game already settled")
    ELSE IF Len(proof) = 0 THEN Fail("Panic: Proof missing")
    ELSE IF Len(public_inputs) < 1 THEN Fail("Panic: Missing public winner output")
    ELSE LET winner_flag == public_inputs[1] IN
      IF winner_flag # 1 /\ winner_flag # 2 THEN Fail("Panic: Invalid winner flag")
      ELSE LET winner == IF winner_flag = 1 THEN game.player1 ELSE game.player2 IN
        IF winner # game.player1 /\ winner # game.player2
        THEN Fail("Panic: Winner address does not match players")
        ELSE Outcome("Ok", Some(winner),
                     Stored(session_id, SettlePoints(game, winner)),
                     hubStarted, hubEnded)

reveal_winner_with_proof(session_id, proof, public_inputs) ==
  /\ session_id \in SessionIds
  /\ Commit("reveal_winner_with_proof", session_id,
            reveal_winner_with_proof_outcome(session_id, proof, public_inputs))

(* ------------------------------ end_game ------------------------------ *)

\* mutant: the winner compared with the wrong participant
Player1Won_WrongPlayer(game) == Unwrap(game.winner) = game.player2

Player1Won(game) == Unwrap(game.winner) = game.player1

end_game_outcome(session_id, auth, hubOk) ==
  IF ~auth THEN Fail("AuthFailed")
  ELSE IF IsNone(games[session_id]) THEN Fail("GameNotFound")
  ELSE LET game == Unwrap(games[session_id]) IN
    IF IsNone(game.player1_guess_commitment)
         \/ IsNone(game.player2_guess_commitment)
    THEN Fail("BothPlayersNotGuessed")
    ELSE IF IsNone(game.winner) THEN Fail("BothPlayersNotGuessed")
    ELSE IF ~hubOk THEN Fail("HubFailed")
    ELSE Outcome("Ok", None, games, hubStarted,
                 [hubEnded EXCEPT ![session_id] = Append(@, Player1Won(game))])

\* the caller only has to sign; the guard caps the hub's log of reports
end_game(session_id, caller, auth, hubOk) ==
  /\ session_id \in SessionIds
  /\ Len(hubEnded[session_id]) < MaxReports
  /\ Commit("end_game", session_id, end_game_outcome(session_id, auth, hubOk))

(* ------------------------- admin entry points ------------------------- *)

\* an invocation that touches the instance storage only
Configure(op, res, val, new_admin, new_hub) ==
  /\ admin' = new_admin
  /\ game_hub' = new_hub
  /\ last' = [op |-> op, sid |-> 0, res |-> res, val |-> val]
  /\ UNCHANGED <<games, hubStarted, hubEnded>>

get_admin ==
  /\ admin \in AdminAddrs
  /\ Configure("get_admin", "Ok", Some(admin), admin, game_hub)

\* auth: the stored admin signed the call
set_admin(new_admin, auth) ==
  /\ new_admin \in AdminAddrs
  /\ IF auth THEN Configure("set_admin", "Ok", None, new_admin, game_hub)
     ELSE Configure("set_admin", "AuthFailed", None, admin, game_hub)

get_hub ==
  /\ game_hub \in HubAddrs
  /\ Configure("get_hub", "Ok", Some(game_hub), admin, game_hub)

set_hub(new_hub, auth) ==
  /\ new_hub \in HubAddrs
  /\ IF auth THEN Configure("set_hub", "Ok", None, admin, new_hub)
     ELSE Configure("set_hub", "AuthFailed", None, admin, game_hub)

(* ------------------------------- Next --------------------------------- *)

Next ==
  \/ \E s \in OneSession, p1 \in Player1Addrs, p2 \in Player2Addrs,
        a \in Stakes1, b \in Stakes2,
        auth1 \in BOOLEAN, auth2 \in BOOLEAN, hubOk \in BOOLEAN :
       start_game(s, p1, p2, a, b, auth1, auth2, hubOk)
  \/ \E s \in OneSession : get_game(s)
  \/ \E s \in OneSession, p \in Addrs, g \in Guesses, auth \in BOOLEAN :
       make_guess(s, p, g, auth)
  \/ \E s \in OneSession, p \in Addrs, c \in Commitments, auth \in BOOLEAN :
       commit_guess(s, p, c, auth)
  \/ \E s \in OneSession : reveal_winner(s)
  \/ \E s \in OneSession, proof \in Proofs, pub \in PublicInputs :
       reveal_winner_with_proof(s, proof, pub)
  \/ \E s \in OneSession, c \in Callers, auth \in BOOLEAN, hubOk \in BOOLEAN :
       end_game(s, c, auth, hubOk)

Spec == Init /\ [][Next]_vars

(* A session that is created once: start_game is only invoked on an id     *)
(* that has no record, everything else as in Next.                         *)
NextOnce ==
  \/ \E s \in OneSession, p1 \in Player1Addrs, p2 \in Player2Addrs,
        a \in Stakes1, b \in Stakes2,
        auth1 \in BOOLEAN, auth2 \in BOOLEAN, hubOk \in BOOLEAN :
       IsNone(games[s]) /\ start_game(s, p1, p2, a, b, auth1, auth2, hubOk)
  \/ \E s \in OneSession : get_game(s)
  \/ \E s \in OneSession, p \in Addrs, g \in Guesses, auth \in BOOLEAN :
       make_guess(s, p, g, auth)
  \/ \E s \in OneSession, p \in Addrs, c \in Commitments, auth \in BOOLEAN :
       commit_guess(s, p, c, auth)
  \/ \E s \in OneSession : reveal_winner(s)
  \/ \E s \in OneSession, proof \in Proofs, pub \in PublicInputs :
       reveal_winner_with_proof(s, proof, pub)
  \/ \E s \in OneSession, c \in Callers, auth \in BOOLEAN, hubOk \in BOOLEAN :
       end_game(s, c, auth, hubOk)

SpecOnce == Init /\ [][NextOnce]_vars

(* Two sessions side by side, and the configuration: session 57 goes       *)
(* through every entry point, session 7 through creation, commitments and  *)
(* the proof-attested resolution; participants A and B, one guess, one     *)
(* commitment, authorised calls and a proof in favour of player2.          *)
MultiPlayers == {"A", "B"}

NextMulti ==
  \/ \E s \in SessionIds : start_game(s, "A", "B", MaxStake, 1, TRUE, TRUE, TRUE)
  \/ \E s \in OneSession : get_game(s)
  \/ \E s \in OneSession, p \in MultiPlayers : make_guess(s, p, <<4, 4, 4>>, TRUE)
  \/ \E s \in SessionIds, p \in MultiPlayers : commit_guess(s, p, "h1", TRUE)
  \/ \E s \in OneSession : reveal_winner(s)
  \/ \E s \in SessionIds : reveal_winner_with_proof(s, <<222>>, <<2>>)
  \/ \E s \in OneSession : end_game(s, "C", TRUE, TRUE)
  \/ get_admin
  \/ \E new_admin \in AdminAddrs, auth \in BOOLEAN : set_admin(new_admin, auth)
  \/ get_hub
  \/ \E new_hub \in HubAddrs, auth \in BOOLEAN : set_hub(new_hub, auth)

SpecMulti == Init /\ [][NextMulti]_vars

(* ============================== claims ================================ *)

\* the stored record of session s (when there is one)
GameOf(s) == Unwrap(games[s])

BothCommitted(game) ==
  IsSome(game.player1_guess_commitment) /\ IsSome(game.player2_guess_commitment)

BothGuessed(game) == IsSome(game.player1_guess) /\ IsSome(game.player2_guess)

\* this step is a successful start_game on s: the record of s is replaced
Recreates(s) ==
  last'.op = "start_game" /\ last'.sid = s /\ last'.res = "Ok"

(* C1: once a session's winner is set, the winner field holds the same     *)
(* identity after every later make_guess, commit_guess, reveal_winner,     *)
(* reveal_winner_with_proof and end_game on it.                            *)
C1_WinnerIsTerminal ==
  [][ \A s \in SessionIds :
        ( /\ IsSome(games[s])
          /\ IsSome(GameOf(s).winner)
          /\ last'.op \in {"make_guess", "commit_guess", "reveal_winner",
                           "reveal_winner_with_proof", "end_game"} )
        => ( /\ IsSome(games'[s])
             /\ Unwrap(games'[s]).winner = GameOf(s).winner ) ]_vars

(* C2: the hub's end_game is invoked at most once for a session id: the    *)
(* hub never holds two accepted reports for one id.                        *)
C2_SettledAtMostOnce == \A s \in SessionIds : Len(hubEnded[s]) <= 1

(* C3: reveal_winner_with_proof fails, changing nothing, while a           *)
(* commitment slot is empty; with flag 1 it gives player1 the sum of both  *)
(* stakes, player2 zero and records player1 as winner, with flag 2 the     *)
(* mirror image; an empty proof, an empty public-output sequence or a      *)
(* first output outside {1,2} aborts, changing neither stakes nor winner.  *)
C3_ProofResolution ==
  [][ last'.op = "reveal_winner_with_proof" =>
        \A s \in {last'.sid}, proof \in Proofs, pub \in PublicInputs :
          reveal_winner_with_proof(s, proof, pub) =>
            LET ok == last'.res = "Ok"
                bad == Len(proof) = 0 \/ Len(pub) = 0 \/ pub[1] \notin {1, 2}
            IN IF IsNone(games[s]) THEN ~ok /\ games' = games
               ELSE LET pre == GameOf(s)
                        post == Unwrap(games'[s])
                        sum == pre.player1_points + pre.player2_points
                    IN /\ (~BothCommitted(pre) \/ bad) => (~ok /\ games' = games)
                       /\ (ok /\ pub[1] = 1) =>
                            /\ post.player1_points = sum
                            /\ post.player2_points = 0
                            /\ post.winner = Some(pre.player1)
                            /\ last'.val = Some(pre.player1)
                       /\ (ok /\ pub[1] = 2) =>
                            /\ post.player2_points = sum
                            /\ post.player1_points = 0
                            /\ post.winner = Some(pre.player2)
                            /\ last'.val = Some(pre.player2) ]_vars

\* flag 2 on stakes (2, 1): B holds 3, A holds 0, winner B
C3_Witness ==
  /\ last.op = "reveal_winner_with_proof" /\ last.res = "Ok"
  /\ IsSome(games[57])
  /\ GameOf(57).winner = Some(GameOf(57).player2)
  /\ GameOf(57).player1_points = 0
  /\ GameOf(57).player2_points = 3
  /\ hubStarted[57] = Some(HubLock("A", "B", 2, 1))

(* C4: end_game succeeds only when the session exists, both commitment     *)
(* slots are populated and a winner is recorded; otherwise an authorised   *)
(* call fails with GameNotFound / BothPlayersNotGuessed and nothing is     *)
(* reported; a successful call reports exactly once, with player1_won =    *)
(* (winner = player1) for the stored winner; the record never changes.     *)
C4_EndGameReports ==
  [][ last'.op = "end_game" =>
        \A s \in {last'.sid}, c \in Callers, auth \in BOOLEAN, hubOk \in BOOLEAN :
          end_game(s, c, auth, hubOk) =>
            LET ok == last'.res = "Ok"
                ready == /\ IsSome(games[s])
                         /\ BothCommitted(GameOf(s))
                         /\ IsSome(GameOf(s).winner)
            IN /\ games' = games
               /\ ok => ready
               /\ ok => hubEnded' =
                          [hubEnded EXCEPT ![s] =
                             Append(@, GameOf(s).winner = Some(GameOf(s).player1))]
               /\ ~ok => hubEnded' = hubEnded
               /\ (auth /\ IsNone(games[s])) => last'.res = "GameNotFound"
               /\ (auth /\ IsSome(games[s]) /\ ~ready) =>
                     last'.res = "BothPlayersNotGuessed" ]_vars

\* a report of "player1 lost" accepted by the hub for a session won by player2
C4_Witness ==
  /\ last.op = "end_game" /\ last.res = "Ok"
  /\ hubEnded[57] = <<FALSE>>
  /\ IsSome(games[57])
  /\ GameOf(57).winner = Some(GameOf(57).player2)

\* player's guess slot is populated
GuessFilled(game, player) ==
  \/ player = game.player1 /\ IsSome(game.player1_guess)
  \/ player = game.player2 /\ IsSome(game.player2_guess)

\* player's commitment slot is populated
CommitmentFilled(game, player) ==
  \/ player = game.player1 /\ IsSome(game.player1_guess_commitment)
  \/ player = game.player2 /\ IsSome(game.player2_guess_commitment)

\* the populated guess slots of s keep their value over this step
GuessesKept(s) ==
  /\ IsSome(games'[s])
  /\ IsSome(GameOf(s).player1_guess) =>
       Unwrap(games'[s]).player1_guess = GameOf(s).player1_guess
  /\ IsSome(GameOf(s).player2_guess) =>
       Unwrap(games'[s]).player2_guess = GameOf(s).player2_guess

\* the populated commitment slots of s keep their value over this step
CommitmentsKept(s) ==
  /\ IsSome(games'[s])
  /\ IsSome(GameOf(s).player1_guess_commitment) =>
       Unwrap(games'[s]).player1_guess_commitment = GameOf(s).player1_guess_commitment
  /\ IsSome(GameOf(s).player2_guess_commitment) =>
       Unwrap(games'[s]).player2_guess_commitment = GameOf(s).player2_guess_commitment

(* C5, as stated: an authorised make_guess by a participant whose guess    *)
(* slot is populated always fails with AlreadyGuessed and changes nothing, *)
(* and a populated guess keeps its value in every later state of the       *)
(* session (a start_game that replaces the record begins another session). *)
C5_SecondGuessAlwaysAlreadyGuessed ==
  [][ /\ last'.op = "make_guess" =>
           \A s \in {last'.sid}, p \in Addrs, g \in Guesses :
             ( /\ make_guess(s, p, g, TRUE)
               /\ IsSome(games[s])
               /\ GuessFilled(GameOf(s), p) )
             => (last'.res = "AlreadyGuessed" /\ games' = games)
      /\ \A s \in SessionIds :
           (IsSome(games[s]) /\ ~Recreates(s)) => GuessesKept(s) ]_vars

(* C5, amended: an authorised make_guess by a participant whose guess slot *)
(* is populated always fails, with AlreadyGuessed while no winner is       *)
(* recorded and with GameAlreadyEnded once a winner is recorded; it        *)
(* changes nothing, and a populated guess keeps its value in every later   *)
(* state of the session.                                                   *)
C5_SecondGuessFails ==
  [][ /\ last'.op = "make_guess" =>
           \A s \in {last'.sid}, p \in Addrs, g \in Guesses :
             ( /\ make_guess(s, p, g, TRUE)
               /\ IsSome(games[s])
               /\ GuessFilled(GameOf(s), p) )
             => /\ last'.res = IF IsSome(GameOf(s).winner)
                               THEN "GameAlreadyEnded" ELSE "AlreadyGuessed"
                /\ games' = games
      /\ \A s \in SessionIds :
           (IsSome(games[s]) /\ ~Recreates(s)) => GuessesKept(s) ]_vars

\* a second attempt was just refused and the first guess is still stored
C5_Witness ==
  /\ last.op = "make_guess" /\ last.res = "AlreadyGuessed"
  /\ IsSome(games[57])
  /\ GameOf(57).player1_guess = Some(<<2, 0, 1>>)
  /\ IsNone(GameOf(57).player2_guess)

(* C6: with the session existing and no winner recorded, an authorised     *)
(* commit_guess by a participant whose commitment slot is populated fails  *)
(* with AlreadyCommitted and one by a non-participant with NotPlayer, both *)
(* changing nothing; a populated commitment keeps its value in every later *)
(* state of the session (a start_game that replaces the record begins      *)
(* another session).                                                       *)
C6_CommitOnce ==
  [][ /\ last'.op = "commit_guess" =>
           \A s \in {last'.sid}, p \in Addrs, c \in Commitments :
             ( /\ commit_guess(s, p, c, TRUE)
               /\ IsSome(games[s])
               /\ IsNone(GameOf(s).winner) )
             => /\ CommitmentFilled(GameOf(s), p) =>
                     (last'.res = "AlreadyCommitted" /\ games' = games)
                /\ (p # GameOf(s).player1 /\ p # GameOf(s).player2) =>
                     (last'.res = "NotPlayer" /\ games' = games)
      /\ \A s \in SessionIds :
           (IsSome(games[s]) /\ ~Recreates(s)) => CommitmentsKept(s) ]_vars

\* a second commitment was just refused and the first one is still stored
C6_Witness ==
  /\ last.op = "commit_guess" /\ last.res = "AlreadyCommitted"
  /\ IsSome(games[57])
  /\ GameOf(57).player2_guess_commitment = Some("h2")
  /\ IsNone(GameOf(57).player1_guess_commitment)

\* how many elements of guess occur in hidden, each position counted
MatchCount(hidden, guess) ==
  Cardinality({ i \in 1..Len(guess) :
                  guess[i] \in { hidden[j] : j \in 1..Len(hidden) } })

(* C7: reveal_winner fails with BothPlayersNotGuessed while a guess slot   *)
(* is empty; otherwise it records and returns player1 when player1's guess *)
(* has at least as many elements occurring in the hidden word as           *)
(* player2's, and player2 otherwise.                                       *)
C7_PlainResolution ==
  [][ last'.op = "reveal_winner" =>
        \A s \in {last'.sid} :
          IsSome(games[s]) =>
            LET pre == GameOf(s) IN
            IF ~BothGuessed(pre)
            THEN last'.res = "BothPlayersNotGuessed" /\ games' = games
            ELSE LET hidden == get_hidden_letters(pre.hidden_word_id)
                     c1 == MatchCount(hidden, Unwrap(pre.player1_guess))
                     c2 == MatchCount(hidden, Unwrap(pre.player2_guess))
                     w == IF c1 >= c2 THEN pre.player1 ELSE pre.player2
                 IN /\ last'.res = "Ok"
                    /\ last'.val = Some(w)
                    /\ games' = [games EXCEPT ![s] =
                                   Some([pre EXCEPT !.winner = Some(w)])] ]_vars

\* a tie (both guessed E,E,E against CHERRY) was resolved to player1
C7_Witness ==
  /\ last.op = "reveal_winner" /\ last.res = "Ok"
  /\ IsSome(games[57])
  /\ GameOf(57).player1_guess = Some(<<4, 4, 4>>)
  /\ GameOf(57).player2_guess = Some(<<4, 4, 4>>)
  /\ GameOf(57).winner = Some(GameOf(57).player1)
  /\ last.val = Some(GameOf(57).player1)

(* C8: when the hub's start_game call fails, start_game fails and the      *)
(* store is as before: in every reachable state, whatever the other        *)
(* inputs, the outcome of a start_game whose hub call fails is a failure   *)
(* with the store unchanged; and every stored record belongs to a session  *)
(* id for which the hub accepted a start_game with the record's            *)
(* participants.                                                           *)
C8_EscrowBeforeRecord ==
  /\ \A s \in SessionIds, p1 \in Addrs, p2 \in Addrs,
        a \in Stakes1, b \in Stakes2, auth1 \in BOOLEAN, auth2 \in BOOLEAN :
       LET out == start_game_outcome(s, p1, p2, a, b, auth1, auth2, FALSE)
       IN out.res # "Ok" /\ out.games = games
  /\ \A s \in SessionIds :
       IsSome(games[s]) =>
         /\ IsSome(hubStarted[s])
         /\ Unwrap(hubStarted[s]).player1 = GameOf(s).player1
         /\ Unwrap(hubStarted[s]).player2 = GameOf(s).player2

\* the hub refused the lock and there is no record
C8_Witness ==
  /\ last.op = "start_game" /\ last.res = "HubFailed"
  /\ IsNone(games[57])
  /\ IsNone(hubStarted[57])

(* C9: after an authorised start_game with distinct participants and the   *)
(* hub call succeeding, get_game returns a record with the given players   *)
(* and stakes, hidden_word_id = session_id mod 50 and empty guesses,       *)
(* commitments and winner; get_game returns the stored record; and every   *)
(* stored record has hidden_word_id = session_id mod 50 in every state.    *)
C9_CreationRecord ==
  [][ /\ last'.op = "start_game" =>
           \A s \in {last'.sid}, p1 \in Player1Addrs, p2 \in Player2Addrs,
              a \in Stakes1, b \in Stakes2 :
             (p1 # p2 /\ start_game(s, p1, p2, a, b, TRUE, TRUE, TRUE))
             => /\ last'.res = "Ok"
                /\ get_game_outcome(s)'.res = "Ok"
                /\ get_game_outcome(s)'.val =
                     Some([ player1 |-> p1, player1_guess |-> None,
                            player1_points |-> a,
                            player2 |-> p2, player2_guess |-> None,
                            player2_points |-> b,
                            winner |-> None,
                            hidden_word_id |-> s % 50,
                            player1_guess_commitment |-> None,
                            player2_guess_commitment |-> None ])
      /\ last'.op = "get_game" =>
           /\ games' = games
           /\ last'.res = "Ok" => last'.val = games[last'.sid]
      /\ \A s \in SessionIds :
           IsSome(games'[s]) => Unwrap(games'[s]).hidden_word_id = s % 50 ]_vars

\* get_game(57) right after creation: the fresh record, hidden word 7
C9_Witness ==
  /\ last.op = "get_game" /\ last.res = "Ok" /\ last.sid = 57
  /\ last.val = Some([ player1 |-> "A", player1_guess |-> None,
                       player1_points |-> 2,
                       player2 |-> "B", player2_guess |-> None,
                       player2_points |-> 1,
                       winner |-> None,
                       hidden_word_id |-> 7,
                       player1_guess_commitment |-> None,
                       player2_guess_commitment |-> None ])

(* C10: start_game with player1 = player2 always fails, before the hub is  *)
(* called and with nothing persisted: in every reachable state, whatever   *)
(* the stakes, the authorisations and the hub's answer, its outcome is the *)
(* self-play abort with store and hub as they were; and every stored       *)
(* record has player1 # player2.                                           *)
C10_NoSelfPlay ==
  /\ \A s \in SessionIds, p \in Addrs, a \in Stakes1, b \in Stakes2,
        auth1 \in BOOLEAN, auth2 \in BOOLEAN, hubOk \in BOOLEAN :
       LET out == start_game_outcome(s, p, p, a, b, auth1, auth2, hubOk)
       IN /\ out.res = "Panic: Cannot play against yourself"
          /\ out.games = games
          /\ out.hubStarted = hubStarted
          /\ out.hubEnded = hubEnded
  /\ \A s \in SessionIds :
       IsSome(games[s]) => GameOf(s).player1 # GameOf(s).player2

\* a self-play creation was just refused: no record, nothing locked at the hub
C10_Witness ==
  /\ last.op = "start_game"
  /\ last.res = "Panic: Cannot play against yourself"
  /\ IsNone(games[57])
  /\ IsNone(hubStarted[57])

\* the stakes the hub locked when the current record of s was created
StakesOf(s) == Unwrap(hubStarted[s])

(* C11: every entry point is atomic with respect to the store: a call that *)
(* exits with a typed error or a fatal abort (anything but Ok) leaves the  *)
(* stored session records identical to what they were before the call.    *)
C11_FailedCallKeepsStore ==
  [][ last'.res # "Ok" => games' = games ]_vars

\* a guess was just refused on a record that already holds one guess
C11_Witness ==
  /\ last.op = "make_guess" /\ last.res = "AlreadyGuessed"
  /\ IsSome(games[57])
  /\ IsSome(GameOf(57).player1_guess)
  /\ IsNone(GameOf(57).player2_guess)

(* C12: make_guess, commit_guess, reveal_winner, end_game and get_game     *)
(* leave player1_points and player2_points of every session unchanged,     *)
(* whether the call succeeds or fails.                                     *)
C12_StakesOnlyMovedByProof ==
  [][ last'.op \in {"make_guess", "commit_guess", "reveal_winner",
                    "end_game", "get_game"}
      => \A s \in SessionIds :
           IsSome(games[s]) =>
             /\ IsSome(games'[s])
             /\ Unwrap(games'[s]).player1_points = GameOf(s).player1_points
             /\ Unwrap(games'[s]).player2_points = GameOf(s).player2_points ]_vars

\* the plain resolution just recorded a winner and both stakes are as locked
C12_Witness ==
  /\ last.op = "reveal_winner" /\ last.res = "Ok"
  /\ IsSome(games[57])
  /\ IsSome(GameOf(57).winner)
  /\ GameOf(57).player1_points = StakesOf(57).player1_points
  /\ GameOf(57).player2_points = StakesOf(57).player2_points
  /\ GameOf(57).player2_points > 0

(* C13: with the session existing and no winner recorded, an authorised    *)
(* commit_guess by a participant whose commitment slot is empty succeeds   *)
(* whatever the guess slots hold and leaves both guess slots as they were; *)
(* an authorised make_guess by a participant whose guess slot is empty     *)
(* succeeds whatever the commitment slots hold and leaves both commitment  *)
(* slots as they were.                                                     *)
C13_GuessAndCommitIndependent ==
  \A s \in SessionIds :
    (IsSome(games[s]) /\ IsNone(GameOf(s).winner)) =>
      \A p \in {GameOf(s).player1, GameOf(s).player2} :
        /\ ~CommitmentFilled(GameOf(s), p) =>
             \A c \in Commitments :
               LET out == commit_guess_outcome(s, p, c, TRUE) IN
                 /\ out.res = "Ok"
                 /\ IsSome(out.games[s])
                 /\ CommitmentFilled(Unwrap(out.games[s]), p)
                 /\ Unwrap(out.games[s]).player1_guess = GameOf(s).player1_guess
                 /\ Unwrap(out.games[s]).player2_guess = GameOf(s).player2_guess
        /\ ~GuessFilled(GameOf(s), p) =>
             \A g \in Guesses :
               LET out == make_guess_outcome(s, p, g, TRUE) IN
                 /\ out.res = "Ok"
                 /\ IsSome(out.games[s])
                 /\ GuessFilled(Unwrap(out.games[s]), p)
                 /\ Unwrap(out.games[s]).player1_guess_commitment =
                      GameOf(s).player1_guess_commitment
                 /\ Unwrap(out.games[s]).player2_guess_commitment =
                      GameOf(s).player2_guess_commitment

\* player2 just committed without having guessed, next to player1's guess
C13_Witness ==
  /\ last.op = "commit_guess" /\ last.res = "Ok"
  /\ IsSome(games[57])
  /\ IsSome(GameOf(57).player1_guess)
  /\ IsNone(GameOf(57).player2_guess)
  /\ IsSome(GameOf(57).player2_guess_commitment)
  /\ IsNone(GameOf(57).player1_guess_commitment)

\* all four guess and commitment slots of s are the same before and after
SlotsUnchanged(s) ==
  /\ IsSome(games'[s])
  /\ Unwrap(games'[s]).player1_guess = GameOf(s).player1_guess
  /\ Unwrap(games'[s]).player2_guess = GameOf(s).player2_guess
  /\ Unwrap(games'[s]).player1_guess_commitment = GameOf(s).player1_guess_commitment
  /\ Unwrap(games'[s]).player2_guess_commitment = GameOf(s).player2_guess_commitment

\* every authorised make_guess and commit_guess on s is refused as ended
MovesRefused(s) ==
  \A p \in Addrs :
    /\ \A g \in Guesses :
         LET out == make_guess_outcome(s, p, g, TRUE) IN
           out.res = "GameAlreadyEnded" /\ out.games = games
    /\ \A c \in Commitments :
         LET out == commit_guess_outcome(s, p, c, TRUE) IN
           out.res = "GameAlreadyEnded" /\ out.games = games

(* C14: once a winner is recorded, every authorised make_guess and         *)
(* commit_guess fails with GameAlreadyEnded, whoever calls (a participant  *)
(* with an empty slot, one with a populated slot, a non-participant), and  *)
(* changes nothing; no guess or commitment slot of the session changes in  *)
(* any step taken while the winner is set (a start_game that replaces the  *)
(* record begins another session).                                         *)
C14_NoMovesAfterWinner ==
  /\ [](\A s \in SessionIds :
          (IsSome(games[s]) /\ IsSome(GameOf(s).winner)) => MovesRefused(s))
  /\ [][ \A s \in SessionIds :
           (IsSome(games[s]) /\ IsSome(GameOf(s).winner) /\ ~Recreates(s))
           => SlotsUnchanged(s) ]_vars

\* a commitment was just refused as ended while a commitment slot is empty
C14_Witness ==
  /\ last.op = "commit_guess" /\ last.res = "GameAlreadyEnded"
  /\ IsSome(games[57])
  /\ IsSome(GameOf(57).winner)
  /\ IsNone(GameOf(57).player1_guess_commitment)
  /\ IsSome(GameOf(57).player2_guess_commitment)

(* C15: start_game makes no existence check: on an id that already has a   *)
(* record, an authorised call with distinct players and the hub accepting  *)
(* succeeds and replaces the record with a fresh one (the new players and  *)
(* stakes, no guess, no commitment, no winner).                            *)
C15_StartGameOverwrites ==
  \A s \in SessionIds :
    IsSome(games[s]) =>
      \A p1 \in Addrs, p2 \in Addrs, a \in 1..MaxStake, b \in 1..MaxStake :
        p1 # p2 =>
          LET out == start_game_outcome(s, p1, p2, a, b, TRUE, TRUE, TRUE) IN
            /\ out.res = "Ok"
            /\ out.games[s] =
                 Some([ player1 |-> p1, player1_guess |-> None,
                        player1_points |-> a,
                        player2 |-> p2, player2_guess |-> None,
                        player2_points |-> b,
                        winner |-> None, hidden_word_id |-> s % 50,
                        player1_guess_commitment |-> None,
                        player2_guess_commitment |-> None ])

\* a fresh record stands on an id whose earlier record was reported to the hub
C15_Witness ==
  /\ last.op = "start_game" /\ last.res = "Ok"
  /\ Len(hubEnded[57]) > 0
  /\ IsSome(games[57])
  /\ IsNone(GameOf(57).winner)
  /\ ~BothCommitted(GameOf(57))

SessionOps ==
  {"start_game", "get_game", "make_guess", "commit_guess", "reveal_winner",
   "reveal_winner_with_proof", "end_game"}

\* no authorised call of a session entry point on s touches the record of t
LeavesAlone(s, t) ==
  /\ \A p1 \in Player1Addrs, p2 \in Player2Addrs, a \in Stakes1, b \in Stakes2 :
       start_game_outcome(s, p1, p2, a, b, TRUE, TRUE, TRUE).games[t] = games[t]
  /\ get_game_outcome(s).games[t] = games[t]
  /\ \A p \in Addrs, g \in Guesses :
       make_guess_outcome(s, p, g, TRUE).games[t] = games[t]
  /\ \A p \in Addrs, c \in Commitments :
       commit_guess_outcome(s, p, c, TRUE).games[t] = games[t]
  /\ reveal_winner_outcome(s).games[t] = games[t]
  /\ \A proof \in Proofs, pub \in PublicInputs :
       reveal_winner_with_proof_outcome(s, proof, pub).games[t] = games[t]
  /\ \A hubOk \in BOOLEAN :
       end_game_outcome(s, TRUE, hubOk).games[t] = games[t]

(* C16: operations on different sessions are independent: an entry point   *)
(* invoked with session id s leaves the record of every other id as it     *)
(* was, and no session entry point changes the stored admin or hub         *)
(* address.                                                                *)
C16_SessionsIndependent ==
  /\ [](\A s \in SessionIds, t \in SessionIds : s # t => LeavesAlone(s, t))
  /\ [][ last'.op \in SessionOps =>
           /\ \A t \in SessionIds : t # last'.sid => games'[t] = games[t]
           /\ admin' = admin
           /\ game_hub' = game_hub ]_vars

\* session 7 was just resolved by proof while session 57 is in mid-game,
\* under a hub address that set_hub installed
C16_Witness ==
  /\ last.op = "reveal_winner_with_proof" /\ last.sid = 7 /\ last.res = "Ok"
  /\ IsSome(games[7]) /\ GameOf(7).winner = Some("B")
  /\ IsSome(games[57]) /\ IsNone(GameOf(57).winner)
  /\ IsSome(GameOf(57).player1_guess)
  /\ game_hub = "hub2"

(* C17: all settlement reports of one session agree: for a session created *)
(* once, every successful end_game passes the same player1_won value, so   *)
(* the reports the hub accepted for one id are all equal.                  *)
C17_ReportsAgree ==
  \A s \in SessionIds :
    \A i \in 1..Len(hubEnded[s]), j \in 1..Len(hubEnded[s]) :
      hubEnded[s][i] = hubEnded[s][j]

\* the proof-attested resolution has moved the stakes of the record of s
ProofSettled(s) ==
  \/ GameOf(s).player1_points # StakesOf(s).player1_points
  \/ GameOf(s).player2_points # StakesOf(s).player2_points

(* C18: in every state of a session in which reveal_winner_with_proof has  *)
(* succeeded, the recorded winner holds the combined stake and the other   *)
(* participant's stake is 0: winner = player1 implies player2_points = 0,  *)
(* winner = player2 implies player1_points = 0.                            *)
C18_WinnerHoldsStake ==
  \A s \in SessionIds :
    (IsSome(games[s]) /\ IsSome(GameOf(s).winner) /\ ProofSettled(s)) =>
      /\ GameOf(s).winner = Some(GameOf(s).player1) =>
           GameOf(s).player2_points = 0
      /\ GameOf(s).winner = Some(GameOf(s).player2) =>
           GameOf(s).player1_points = 0

(* C19: a session with a recorded winner can still be settled: no state    *)
(* has a winner recorded while a participant's commitment slot is empty    *)
(* and can no longer be filled, i.e. whenever a winner is recorded, every  *)
(* participant with an empty commitment slot has an authorised             *)
(* commit_guess that succeeds.                                             *)
C19_WinnerCanBeSettled ==
  \A s \in SessionIds :
    (IsSome(games[s]) /\ IsSome(GameOf(s).winner)) =>
      \A p \in {GameOf(s).player1, GameOf(s).player2} :
        ~CommitmentFilled(GameOf(s), p) =>
          \E c \in Commitments : commit_guess_outcome(s, p, c, TRUE).res = "Ok"

(* C20: the total stake is conserved: in every state the two points fields *)
(* of a record add up to the two stakes it was created with.               *)
C20_StakeConserved ==
  \A s \in SessionIds :
    IsSome(games[s]) =>
      GameOf(s).player1_points + GameOf(s).player2_points
        = StakesOf(s).player1_points + StakesOf(s).player2_points

\* the proof just gave player2 both stakes of a session created with (2, 1)
C20_Witness ==
  /\ last.op = "reveal_winner_with_proof" /\ last.res = "Ok"
  /\ IsSome(games[57])
  /\ StakesOf(57).player1_points = MaxStake
  /\ StakesOf(57).player2_points = 1
  /\ GameOf(57).player1_points = 0
  /\ GameOf(57).player2_points = MaxStake + 1

====
